---- MODULE Spec2Model ----
(***************************************************************************)
(* A model of the hj compiler front end: the lexer (src/src/lexer.rs), the *)
(* parser (src/src/parser.rs) and the type traverser                      *)
(* (src/src/variable_traverser.rs over the node types of src/src/nodes.rs).*)
(*                                                                         *)
(* Text is a sequence of characters, each character a one-element string.  *)
(* The character "é" stands for the non-ASCII characters: it is one char   *)
(* of a Rust String and two bytes of its UTF-8 encoding.                   *)
(***************************************************************************)
EXTENDS Integers, Sequences, FiniteSets, TLC

VARIABLES
    stage,           \* which part of the pipeline runs: "lex", "parse", "sem", "done"
    source,          \* the source text given to create_tokens
    chars,           \* Tokenizer.chars: the characters not yet consumed
    tokens,          \* the token Vec built by create_tokens, then Parser.tokens
    lexres,          \* what create_tokens returned, [st |-> "Run"] while it runs
    idx,             \* Parser.idx
    commands,        \* scope_node.commands inside Parser::parse
    parseres,        \* what Parser::parse returned
    scope,           \* the ScopeNode given to VariableTraverser::traverse
    cmd_i,           \* how many commands of scope the traverse loop has passed
    variable_table,  \* VariableTraverser.variable_table
    semres           \* what traverse returned

vars == <<stage, source, chars, tokens, lexres, idx, commands, parseres,
          scope, cmd_i, variable_table, semres>>

(***************************************************************************)
(* Characters and strings                                                  *)
(***************************************************************************)
None == "None"

NonAscii == {"é"}

Digits == {"0", "1", "2", "3", "4", "5", "6", "7", "8", "9"}

AsciiAlpha ==
    {"a", "b", "c", "d", "e", "f", "g", "h", "i", "j", "k", "l", "m",
     "n", "o", "p", "q", "r", "s", "t", "u", "v", "w", "x", "y", "z",
     "A", "B", "C", "D", "E", "F", "G", "H", "I", "J", "K", "L", "M",
     "N", "O", "P", "Q", "R", "S", "T", "U", "V", "W", "X", "Y", "Z"}

is_ascii_digit(c) == c \in Digits

is_ascii_alphabetic(c) == c \in AsciiAlpha

is_ascii_alphanumeric(c) == c \in AsciiAlpha \cup Digits

\* the number of bytes of one char in a String
Utf8Len(c) == IF c \in NonAscii THEN 2 ELSE 1

\* String::len(): the number of bytes, not of chars
RECURSIVE StrLen(_)
StrLen(s) == IF s = <<>> THEN 0 ELSE Utf8Len(Head(s)) + StrLen(Tail(s))

Some(v) == [some |-> TRUE, val |-> v]

NoneOpt == [some |-> FALSE, val |-> <<>>]

KEYWORDS == {<<"l", "e", "t">>, <<"i", "f">>, <<"e", "l", "s", "e">>,
             <<"w", "h", "i", "l", "e">>}

INBUILT_TYPES == {<<"i", "n", "t">>, <<"u", "i", "n", "t">>,
                  <<"f", "l", "o", "a", "t">>, <<"u", "f", "l", "o", "a", "t">>,
                  <<"b", "o", "o", "l">>, <<"c", "h", "a", "r">>, <<"s", "t", "r">>}

BOOL_LITERALS == {<<"t", "r", "u", "e">>, <<"f", "a", "l", "s", "e">>}

(***************************************************************************)
(* Lexer                                                                   *)
(***************************************************************************)
Token(kind, contents) == [kind |-> kind, value |-> contents]

NoToken == [kind |-> "None", value |-> <<>>]

\* Tokenizer::peek(n), n >= 1: the n-th char ahead, None past the end
peek(cs, n) == IF Len(cs) >= n THEN cs[n] ELSE None

\* Tokenizer::peek_string(n)
peek_string(cs, n) == IF Len(cs) >= n THEN Some(SubSeq(cs, 1, n)) ELSE NoneOpt

RECURSIVE peek_name(_)
peek_name(cs) ==
    IF cs # <<>> /\ (is_ascii_alphanumeric(Head(cs)) \/ Head(cs) = "_")
    THEN <<Head(cs)>> \o peek_name(Tail(cs))
    ELSE <<>>

RECURSIVE peek_number(_)
peek_number(cs) ==
    IF cs # <<>> /\ (is_ascii_digit(Head(cs)) \/ Head(cs) = ".")
    THEN <<Head(cs)>> \o peek_number(Tail(cs))
    ELSE <<>>

\* the loop of peek_until, after the offset was skipped
RECURSIVE peek_until_loop(_, _, _)
peek_until_loop(cs, searched, or_eof) ==
    IF cs = <<>>
    THEN IF or_eof THEN Some(<<>>) ELSE NoneOpt
    ELSE IF Head(cs) = searched
         THEN Some(<<>>)
         ELSE LET rest == peek_until_loop(Tail(cs), searched, or_eof)
              IN  IF rest.some THEN Some(<<Head(cs)>> \o rest.val) ELSE NoneOpt

peek_until(cs, searched, offset, or_eof) ==
    IF Len(cs) < offset
    THEN NoneOpt
    ELSE peek_until_loop(SubSeq(cs, offset + 1, Len(cs)), searched, or_eof)

\* Tokenizer::advance(n): n chars are taken; Err when the chars run out first
advance(cs, n) ==
    IF Len(cs) >= n
    THEN [ok |-> TRUE, chars |-> SubSeq(cs, n + 1, Len(cs))]
    ELSE [ok |-> FALSE, chars |-> <<>>]

CountChar(s, c) == Cardinality({i \in 1..Len(s) : s[i] = c})

\* the number-literal test of next_token
valid_number(num) ==
    /\ CountChar(num, ".") <= 1
    /\ ~(num # <<>> /\ Head(num) = ".")
    /\ ~(num # <<>> /\ num[Len(num)] = ".")

\* the classification of a name by next_token
name_token(name) ==
    IF name \in KEYWORDS THEN Token("Keyword", name)
    ELSE IF name \in INBUILT_TYPES THEN Token("InbuiltType", name)
    ELSE IF name \in BOOL_LITERALS THEN Token("BoolLiteral", name)
    ELSE Token("Name", name)

LexOk(tok, cs) == [st |-> "Ok", token |-> tok, chars |-> cs, msg |-> ""]

LexErr(msg, cs) == [st |-> "Err", token |-> NoToken, chars |-> cs, msg |-> msg]

LexPanic(cs) == [st |-> "Panic", token |-> NoToken, chars |-> cs, msg |-> "unwrap on Err"]

\* the quoted literals of next_token: the text up to the closing quote, both
\* quotes included
quoted_token(cs, quote, kind, msg) ==
    LET contents == peek_until(cs, quote, 1, FALSE)
    IN  IF contents.some
        THEN LexOk(Token(kind, <<quote>> \o contents.val \o <<quote>>), cs)
        ELSE LexErr(msg, cs)

\* the number of chars a comment makes next_token advance by
comment_advance(comment) == StrLen(comment) + 2

\* the arm of next_token for + - * / %
operator_token(cs, first_char) ==
    LET second == IF peek(cs, 2) = None THEN " " ELSE peek(cs, 2)
    IN  IF first_char = "/" /\ second = "/"
        THEN LET comment == peek_until(cs, "\n", 2, TRUE).val
                 adv == advance(cs, comment_advance(comment))
             IN  IF adv.ok THEN LexOk(NoToken, adv.chars) ELSE LexPanic(adv.chars)
        ELSE IF second = "="
             THEN LexOk(Token("AssignmentOperator", peek_string(cs, 2).val), cs)
             ELSE LexOk(Token("Operator", <<first_char>>), cs)

\* Tokenizer::next_token, called with chars not empty
next_token(cs) ==
    LET first_char == peek(cs, 1)
    IN  CASE first_char \in {" ", "\n", "\t"} -> LexOk(NoToken, Tail(cs))
          [] first_char = "(" -> LexOk(Token("OpenParen", <<first_char>>), cs)
          [] first_char = ")" -> LexOk(Token("CloseParen", <<first_char>>), cs)
          [] first_char = "[" -> LexOk(Token("OpenBracket", <<first_char>>), cs)
          [] first_char = "]" -> LexOk(Token("CloseBracket", <<first_char>>), cs)
          [] first_char = "{" -> LexOk(Token("OpenBrace", <<first_char>>), cs)
          [] first_char = "}" -> LexOk(Token("CloseBrace", <<first_char>>), cs)
          [] first_char = "," -> LexOk(Token("Comma", <<first_char>>), cs)
          [] first_char = ";" -> LexOk(Token("Semicolon", <<first_char>>), cs)
          [] first_char = "=" -> LexOk(Token("AssignmentOperator", <<first_char>>), cs)
          [] first_char \in {"+", "-", "*", "/", "%"} -> operator_token(cs, first_char)
          [] first_char = "'" ->
                quoted_token(cs, "'", "CharLiteral", "Unexpected EOF (char literal)")
          [] first_char = "\"" ->
                quoted_token(cs, "\"", "StringLiteral", "Unexpected EOF (string literal)")
          [] OTHER ->
                IF is_ascii_digit(first_char)
                THEN IF valid_number(peek_number(cs))
                     THEN LexOk(Token("NumberLiteral", peek_number(cs)), cs)
                     ELSE LexErr("Invalid number syntax!", cs)
                ELSE IF is_ascii_alphabetic(first_char)
                     THEN LexOk(name_token(peek_name(cs)), cs)
                     ELSE LexErr("Unexpected character", cs)

\* one turn of the loop of create_tokens, on the pair (chars, tokens)
create_tokens_step(cs, toks) ==
    LET r == next_token(cs)
    IN  IF r.st # "Ok"
        THEN [st |-> r.st, chars |-> r.chars, tokens |-> toks, msg |-> r.msg]
        ELSE IF r.token = NoToken
             THEN [st |-> "Run", chars |-> r.chars, tokens |-> toks, msg |-> ""]
             ELSE LET adv == advance(r.chars, StrLen(r.token.value))
                  IN  IF adv.ok
                      THEN [st |-> "Run", chars |-> adv.chars,
                            tokens |-> Append(toks, r.token), msg |-> ""]
                      ELSE [st |-> "Panic", chars |-> adv.chars, tokens |-> toks,
                            msg |-> "unwrap on Err"]

\* create_tokens run to its end: the loop from (chars, tokens)
RECURSIVE create_tokens_loop(_, _)
create_tokens_loop(cs, toks) ==
    IF cs = <<>>
    THEN [st |-> "Ok", tokens |-> toks, msg |-> ""]
    ELSE LET s == create_tokens_step(cs, toks)
         IN  IF s.st = "Run"
             THEN create_tokens_loop(s.chars, s.tokens)
             ELSE [st |-> s.st, tokens |-> <<>>, msg |-> s.msg]

create_tokens(src) == create_tokens_loop(src, <<>>)

(***************************************************************************)
(* AST nodes (src/src/nodes.rs).  An expression node is a TExpressionNode: *)
(* the fields of its ExpressionNode variant together with the type slot t, *)
(* which is None until the traverser fills it.                             *)
(***************************************************************************)
NoNode == [kind |-> "None"]

Operators == {"Plus", "Minus", "Multiply", "Divide", "Modulo"}

\* Operator::from; "Panic" stands for the panic! arm
Operator_from(text) ==
    CASE text = <<"+">> -> "Plus"
      [] text = <<"-">> -> "Minus"
      [] text = <<"*">> -> "Multiply"
      [] text = <<"/">> -> "Divide"
      [] text = <<"%">> -> "Modulo"
      [] OTHER -> "Panic"

priority_score_flat(op) == 1

\* Operator::priority_score
priority_score(op) == IF op \in {"Plus", "Minus"} THEN 1 ELSE 2

binds_tighter_or_equal(next_op, op) == priority_score(next_op) >= priority_score(op)

\* the test of the loop of parse_binary_expression
binds_tighter(next_op, op) == priority_score(next_op) > priority_score(op)

BinaryOperationNode(left_expr, operator, right_expr) ==
    [kind |-> "BinaryOperation", left_expr |-> left_expr, operator |-> operator,
     right_expr |-> right_expr, t |-> None]

UnaryOperationNode(operator, expression) ==
    [kind |-> "UnaryOperation", operator |-> operator, expression |-> expression,
     t |-> None]

VariableNode(name) == [kind |-> "Variable", name |-> name, t |-> None]

IntLiteralNode(value) == [kind |-> "IntLiteral", value |-> value, t |-> None]

FloatLiteralNode(value) == [kind |-> "FloatLiteral", value |-> value, t |-> None]

BoolLiteralNode(value) == [kind |-> "BoolLiteral", value |-> value, t |-> None]

StringLiteralNode(value) == [kind |-> "StringLiteral", value |-> value, t |-> None]

CharLiteralNode(value) == [kind |-> "CharLiteral", value |-> value, t |-> None]

\* a FunctionCallNode in an expression
FunctionCallExpr(name, args) ==
    [kind |-> "FunctionCall", name |-> name, args |-> args, t |-> None]

\* CommandNode::FunctionCallNode
FunctionCallNode(name, args) ==
    [kind |-> "FunctionCallCommand", name |-> name, args |-> args]

\* vtype is NoneOpt or Some(type name); expression is NoNode or a node
VariableDefinitionNode(vtype, name, expression) ==
    [kind |-> "VariableDefinition", vtype |-> vtype, name |-> name,
     expression |-> expression]

VariableAssignmentNode(name, expression) ==
    [kind |-> "VariableAssignment", name |-> name, expression |-> expression]

(***************************************************************************)
(* Literal conversions of parse_single_value                               *)
(***************************************************************************)
RECURSIVE StripLeft(_, _)
StripLeft(s, c) == IF s # <<>> /\ Head(s) = c THEN StripLeft(Tail(s), c) ELSE s

RECURSIVE StripRight(_, _)
StripRight(s, c) ==
    IF s # <<>> /\ s[Len(s)] = c THEN StripRight(SubSeq(s, 1, Len(s) - 1), c) ELSE s

\* str::trim_matches(c): every leading and every trailing c is removed
trim_matches(s, c) == StripRight(StripLeft(s, c), c)

\* the digits of i64::MAX, 9223372036854775807
I64MaxDigits == <<"9", "2", "2", "3", "3", "7", "2", "0", "3", "6", "8", "5",
                  "4", "7", "7", "5", "8", "0", "7">>

DigitValue(c) == CHOOSE n \in 0..9 : <<"0", "1", "2", "3", "4", "5", "6", "7", "8", "9">>[n + 1] = c

\* a <= b for two digit strings of one length
RECURSIVE DigitsLeq(_, _)
DigitsLeq(a, b) ==
    IF a = <<>> THEN TRUE
    ELSE IF DigitValue(Head(a)) < DigitValue(Head(b)) THEN TRUE
    ELSE IF DigitValue(Head(a)) > DigitValue(Head(b)) THEN FALSE
    ELSE DigitsLeq(Tail(a), Tail(b))

\* str::parse::<i64>() of a digit string: the integer, held as its decimal
\* digits without leading zeros; not ok when it exceeds i64::MAX
parse_i64(text) ==
    LET d == IF StripLeft(text, "0") = <<>> THEN <<"0">> ELSE StripLeft(text, "0")
    IN  [ok |-> \/ Len(d) < Len(I64MaxDigits)
                \/ Len(d) = Len(I64MaxDigits) /\ DigitsLeq(d, I64MaxDigits),
         value |-> d]

\* str::parse::<f64>() of digits '.' digits: the number, held as its decimal
\* expansion without leading or trailing zeros (rounding to f64 is left out)
parse_f64(text) ==
    LET dot == CHOOSE i \in 1..Len(text) : text[i] = "."
        int == StripLeft(SubSeq(text, 1, dot - 1), "0")
        frac == StripRight(SubSeq(text, dot + 1, Len(text)), "0")
    IN  (IF int = <<>> THEN <<"0">> ELSE int) \o <<".">> \o
        (IF frac = <<>> THEN <<"0">> ELSE frac)

(***************************************************************************)
(* Parser.  idx counts from 0 as in the code; toks[idx + 1] is tokens[idx]. *)
(* Every parse function returns its Result with the idx it leaves:         *)
(* st is "Ok", "Err", "Panic" (a panic!, an unwrap of an Err) or           *)
(* "Unchecked" (a token taken without a test is not the one assumed).      *)
(***************************************************************************)
POk(node, i) == [st |-> "Ok", node |-> node, idx |-> i, msg |-> ""]

PErr(msg, i) == [st |-> "Err", node |-> NoNode, idx |-> i, msg |-> msg]

PPanic(i) == [st |-> "Panic", node |-> NoNode, idx |-> i, msg |-> "panic"]

\* Parser::next and `self.idx += 1` used without a test, on the word of a
\* comment ("we will assume the next token is an operator", "we can assume
\* the "let" is there"): the outcome when the token assumed at `site` is not
\* there.  The code then panics in unwrap or goes on with another token.
PUnchecked(site, i) == [st |-> "Unchecked", node |-> NoNode, idx |-> i, msg |-> site]

\* Parser::get(relative_idx) at idx i
get(toks, i, relative_idx) ==
    IF i + relative_idx < Len(toks) THEN toks[i + relative_idx + 1] ELSE NoToken

StopTokens == {"Comma", "CloseParen", "Semicolon"}

RECURSIVE parse_single_value(_, _)
RECURSIVE parse_binary_expression(_, _, _)
RECURSIVE parse_binary_loop(_, _, _, _, _)
RECURSIVE parse_expression_loop(_, _, _)
RECURSIVE parse_function_call(_, _)
RECURSIVE parse_function_args(_, _, _)

\* the NumberLiteral arm of parse_single_value
number_literal(text, i) ==
    IF CountChar(text, ".") > 0
    THEN POk(FloatLiteralNode(parse_f64(text)), i)
    ELSE IF parse_i64(text).ok
         THEN POk(IntLiteralNode(parse_i64(text).value), i)
         ELSE PPanic(i)

\* the CharLiteral arm of parse_single_value: chars().nth(1).unwrap()
char_literal(text, i) ==
    IF Len(text) >= 2 THEN POk(CharLiteralNode(text[2]), i) ELSE PPanic(i)

\* parse_expression after its first operand, and after each binary operation
expression_continue(toks, r) ==
    IF r.st # "Ok" THEN r ELSE parse_expression_loop(toks, r.idx, r.node)

parse_expression(toks, i) == expression_continue(toks, parse_single_value(toks, i))

\* the OpenParen arm of parse_single_value, after the nested expression
close_paren(toks, value) ==
    IF value.st # "Ok" THEN value
    ELSE IF value.idx >= Len(toks) THEN PUnchecked("close_paren", value.idx + 1)
    ELSE IF toks[value.idx + 1].kind = "CloseParen"
         THEN POk(value.node, value.idx + 1)
         ELSE PErr("Unexpected token after expression (expected closing parenthesis)",
                   value.idx + 1)

\* the Operator arm of parse_single_value, after the operand of + or -
unary_operation(operator, value) ==
    IF value.st # "Ok" THEN value
    ELSE POk(UnaryOperationNode(operator, value.node), value.idx)

\* the Name arm of parse_single_value, after parse_function_call
function_call_value(call) ==
    IF call.st # "Ok" THEN call
    ELSE POk(FunctionCallExpr(call.node.name, call.node.args), call.idx)

parse_single_value(toks, i) ==
    IF i >= Len(toks)
    THEN PErr("Unexpected EOF when trying to parse expression (missing value)", i)
    ELSE
    LET next_tok == toks[i + 1]
        i1 == i + 1
    IN  CASE next_tok.kind = "OpenParen" -> close_paren(toks, parse_expression(toks, i1))
          [] next_tok.kind = "Operator" ->
                IF Operator_from(next_tok.value) = "Panic" THEN PPanic(i1)
                ELSE IF Operator_from(next_tok.value) \in {"Plus", "Minus"}
                THEN unary_operation(Operator_from(next_tok.value),
                                     parse_single_value(toks, i1))
                ELSE PErr("The operator can't be used as a unary operator", i1)
          [] next_tok.kind = "NumberLiteral" -> number_literal(next_tok.value, i1)
          [] next_tok.kind = "BoolLiteral" ->
                POk(BoolLiteralNode(next_tok.value = <<"t", "r", "u", "e">>), i1)
          [] next_tok.kind = "StringLiteral" ->
                POk(StringLiteralNode(trim_matches(next_tok.value, "\"")), i1)
          [] next_tok.kind = "CharLiteral" -> char_literal(next_tok.value, i1)
          [] next_tok.kind = "Name" ->
                IF get(toks, i1, 0) = NoToken
                THEN PErr("Unexpected EOF while parsing expression (missed a semicolon?)", i1)
                ELSE IF get(toks, i1, 0).kind = "OpenParen"
                THEN function_call_value(parse_function_call(toks, i1 - 1))
                ELSE POk(VariableNode(next_tok.value), i1)
          [] OTHER ->
                PErr("Unexpected token while parsing expression, expected value", i1)

\* the loop of parse_binary_expression after a tighter operation was
\* absorbed into the right operand
binary_continue(toks, left_expr, op, r) ==
    IF r.st # "Ok" THEN r ELSE parse_binary_loop(toks, r.idx, left_expr, op, r.node)

\* the loop of parse_binary_expression, with op and the right operand so far
parse_binary_loop(toks, i, left_expr, op, right_expr) ==
    LET token_after == get(toks, i, 0)
    IN  IF token_after = NoToken
        THEN PErr("Unexpected EOF when trying to parsing expression (missed a semicolon?)", i)
        ELSE IF token_after.kind # "Operator"
        THEN POk(BinaryOperationNode(left_expr, op, right_expr), i)
        ELSE IF Operator_from(token_after.value) = "Panic" THEN PPanic(i)
        ELSE IF binds_tighter(Operator_from(token_after.value), op)
        THEN binary_continue(toks, left_expr, op,
                             parse_binary_expression(toks, i, right_expr))
        ELSE POk(BinaryOperationNode(left_expr, op, right_expr), i)

parse_binary_expression(toks, i, left_expr) ==
    IF get(toks, i, 0).kind # "Operator"
    THEN PUnchecked("parse_binary_expression", i + 1)
    ELSE IF Operator_from(toks[i + 1].value) = "Panic" THEN PPanic(i + 1)
    ELSE binary_continue(toks, left_expr, Operator_from(toks[i + 1].value),
                         parse_single_value(toks, i + 1))

parse_expression_loop_to_end(toks, i, current_expression) ==
    IF i >= Len(toks) \/ toks[i + 1].kind \in StopTokens
    THEN POk(current_expression, i)
    ELSE IF toks[i + 1].kind = "Operator"
    THEN expression_continue(toks, parse_binary_expression(toks, i, current_expression))
    ELSE PErr("Unexpected token while parsing expression (forgot a semicolon?)", i + 1)

\* the loop of parse_expression, with the expression so far
parse_expression_loop(toks, i, current_expression) ==
    IF i >= Len(toks)
    THEN PErr("Unexpected EOF when trying to parse expression (missed a semicolon?)", i)
    ELSE IF toks[i + 1].kind \in StopTokens
    THEN POk(current_expression, i)
    ELSE IF toks[i + 1].kind = "Operator"
    THEN expression_continue(toks, parse_binary_expression(toks, i, current_expression))
    ELSE PErr("Unexpected token while parsing expression (forgot a semicolon?)", i + 1)

\* the semicolon every command ends with; r holds the node and the idx
expect_semicolon(toks, r, what) ==
    IF r.st # "Ok" THEN r
    ELSE IF r.idx >= Len(toks)
    THEN PErr("Unexpected EOF (expected semicolon)", r.idx)
    ELSE IF toks[r.idx + 1].kind = "Semicolon"
         THEN POk(r.node, r.idx + 1)
         ELSE PErr(what, r.idx + 1)

\* the argument loop of parse_function_call, after one argument
after_argument(toks, args, expression) ==
    IF expression.st # "Ok" THEN expression
    ELSE IF expression.idx >= Len(toks)
    THEN PErr("Unexpected EOF when trying to parse function call (expected closing parenthesis)",
              expression.idx)
    ELSE IF toks[expression.idx + 1].kind = "CloseParen"
    THEN POk(Append(args, expression.node), expression.idx + 1)
    ELSE IF toks[expression.idx + 1].kind = "Comma"
    THEN parse_function_args(toks, expression.idx + 1, Append(args, expression.node))
    ELSE PErr("Unexpected token in function parameters", expression.idx + 1)

parse_function_args(toks, i, args) == after_argument(toks, args, parse_expression(toks, i))

\* the FunctionCallNode of parse_function_call, once the arguments are read
call_node(function_name, args) ==
    IF args.st # "Ok" THEN args
    ELSE POk(FunctionCallNode(function_name, args.node), args.idx)

parse_function_call(toks, i) ==
    IF get(toks, i, 0).kind # "Name" \/ get(toks, i, 1).kind # "OpenParen"
    THEN PUnchecked("parse_function_call", i + 1)
    ELSE IF get(toks, i + 2, 0) = NoToken
    THEN PErr("Unexpected EOF when trying to parse function call (expected closing parenthesis)",
              i + 2)
    ELSE expect_semicolon(toks,
             call_node(toks[i + 1].value,
                       IF get(toks, i + 2, 0).kind = "CloseParen"
                       THEN POk(<<>>, i + 3)
                       ELSE parse_function_args(toks, i + 2, <<>>)),
             "Unexpected token while parsing function call (expected semicolon)")

\* the VariableDefinitionNode of parse_variable_definition
definition_node(vtype, name, expression) ==
    IF expression.st # "Ok" THEN expression
    ELSE POk(VariableDefinitionNode(vtype, name, expression.node), expression.idx)

\* let [type]? name = expression ;
parse_variable_definition(toks, i) ==
    LET i1 == i + 1
        typed == i1 < Len(toks) /\ toks[i1 + 1].kind = "InbuiltType"
        vtype == IF typed THEN Some(toks[i1 + 1].value) ELSE NoneOpt
        n == IF typed THEN i1 + 1 ELSE i1      \* where the name is looked for
    IN  IF get(toks, i, 0) # Token("Keyword", <<"l", "e", "t">>)
        THEN PUnchecked("parse_variable_definition", i1)
        ELSE IF i1 >= Len(toks)
        THEN PErr("Unexpected EOF (expected variable name or type)", i1)
        ELSE IF n >= Len(toks)
        THEN PErr("Unexpected EOF (expected variable name)", n)
        ELSE IF toks[n + 1].kind # "Name"
        THEN PErr("Unexpected token while parsing variable definition (expected variable name)", n + 1)
        ELSE IF n + 1 >= Len(toks)
        THEN PErr("Unexpected EOF (expected equal sign)", n + 1)
        ELSE IF toks[n + 2].kind # "AssignmentOperator"
        THEN PErr("Unexpected token while parsing variable definition (expected variable name)", n + 2)
        ELSE IF toks[n + 2].value # <<"=">>
        THEN PErr("Can't use special assignment operator for a variable definition", n + 2)
        ELSE expect_semicolon(toks,
                 definition_node(vtype, toks[n + 1].value, parse_expression(toks, n + 2)),
                 "Unexpected token while parsing variable assignment (expected semicolon)")

assigned_expression_plain(var_name, operator, expression) == expression

assigned_expression_early(var_name, operator, expression) ==
    IF operator = "=" \/ expression.kind # "BinaryOperation"
    THEN assigned_expression_plain(var_name, operator, expression)
    ELSE [expression EXCEPT
            !.left_expr = BinaryOperationNode(VariableNode(var_name), operator, @)]

\* the expression a variable assignment stores: the right-hand side for "=",
\* var_name <operator> right-hand side for a compound operator
assigned_expression(var_name, operator, expression) ==
    IF operator = "="
    THEN expression
    ELSE BinaryOperationNode(VariableNode(var_name), operator, expression)

\* the VariableAssignmentNode of parse_variable_assignment
assignment_node(var_name, operator, expression) ==
    IF expression.st # "Ok" THEN expression
    ELSE POk(VariableAssignmentNode(var_name,
                 assigned_expression(var_name, operator, expression.node)),
             expression.idx)

\* the operator of an assignment operator: "=" or that of its first char
assignment_operator_of(text) ==
    IF text = <<"=">> THEN "=" ELSE Operator_from(SubSeq(text, 1, 1))

\* name (= | op=) expression ;
parse_variable_assignment(toks, i) ==
    IF i >= Len(toks)
    THEN PErr("Unexpected EOF (expected variable name)", i)
    ELSE IF toks[i + 1].kind # "Name"
    THEN PErr("Unexpected token while parsing variable assignment (expected variable name)", i + 1)
    ELSE IF i + 1 >= Len(toks)
    THEN PErr("Unexpected EOF (expected equal sign)", i + 1)
    ELSE IF toks[i + 2].kind # "AssignmentOperator"
    THEN PErr("Unexpected token while parsing variable assignment (expected variable name)", i + 2)
    ELSE IF assignment_operator_of(toks[i + 2].value) = "Panic" THEN PPanic(i + 2)
    ELSE expect_semicolon(toks,
             assignment_node(toks[i + 1].value, assignment_operator_of(toks[i + 2].value),
                             parse_expression(toks, i + 2)),
             "Unexpected token while parsing variable assignment (expected semicolon)")

parse_command_lenient(toks, i) ==
    LET first == get(toks, i, 0)
        second == get(toks, i, 1)
    IN  IF first = NoToken THEN PUnchecked("parse_command", i)
        ELSE IF first.kind = "Keyword"
        THEN IF first.value = <<"l", "e", "t">>
             THEN parse_variable_definition(toks, i)
             ELSE PErr("Unexpected keyword, expected a command", i)
        ELSE IF first.kind = "Name"
        THEN IF second = NoToken
             THEN PErr("Unexpected EOF when trying to parse a command", i)
             ELSE IF second.kind = "OpenParen" THEN parse_function_call(toks, i)
             ELSE parse_variable_assignment(toks, i)
        ELSE PErr("Unexpected token, expected a command", i)

\* Parser::parse_command, called with idx < tokens.len()
parse_command(toks, i) ==
    LET first == get(toks, i, 0)
        second == get(toks, i, 1)
    IN  IF first = NoToken THEN PUnchecked("parse_command", i)
        ELSE IF first.kind = "Keyword"
        THEN IF first.value = <<"l", "e", "t">>
             THEN parse_variable_definition(toks, i)
             ELSE PErr("Unexpected keyword, expected a command", i)
        ELSE IF first.kind = "Name"
        THEN IF second = NoToken
             THEN PErr("Unexpected EOF when trying to parse a command", i)
             ELSE IF second.kind = "OpenParen" THEN parse_function_call(toks, i)
             ELSE IF second.kind = "AssignmentOperator" THEN parse_variable_assignment(toks, i)
             ELSE PErr("Unexpected token after custom name, expected a command", i)
        ELSE PErr("Unexpected token, expected a command", i)

\* Parser::parse run to its end: the loop from idx i with the commands so far
RECURSIVE parse_loop(_, _, _)
parse_loop(toks, i, cmds) ==
    IF i >= Len(toks)
    THEN [st |-> "Ok", commands |-> cmds, idx |-> i, msg |-> ""]
    ELSE LET r == parse_command(toks, i)
         IN  IF r.st = "Ok"
             THEN parse_loop(toks, r.idx, Append(cmds, r.node))
             ELSE [st |-> r.st, commands |-> <<>>, idx |-> r.idx, msg |-> r.msg]

parse(toks) == parse_loop(toks, 0, <<>>)

(***************************************************************************)
(* Type traverser                                                          *)
(***************************************************************************)
Types == {"Int", "Float", "Bool", "Char", "Str"}

\* Type::from; "Panic" stands for the panic! arm
Type_from(typename) ==
    CASE typename = <<"i", "n", "t">> -> "Int"
      [] typename = <<"f", "l", "o", "a", "t">> -> "Float"
      [] typename = <<"b", "o", "o", "l">> -> "Bool"
      [] typename = <<"c", "h", "a", "r">> -> "Char"
      [] typename = <<"s", "t", "r">> -> "Str"
      [] OTHER -> "Panic"

\* HashMap::new()
EmptyTable == [n \in {} |-> None]

insert_keep_first(table, name, vtype) == table @@ (name :> vtype)

\* HashMap::insert
insert(table, name, vtype) == (name :> vtype) @@ table

SOk(node) == [st |-> "Ok", node |-> node, msg |-> ""]

SErr(node, msg) == [st |-> "Err", node |-> node, msg |-> msg]

is_numeric(type) == type \in {"Int", "Float"}

binary_type_left(left_type, right_type) == left_type

\* the type of a binary operation over two numeric operands
binary_type(left_type, right_type) ==
    IF right_type = "Float" \/ left_type = "Float" THEN "Float" ELSE "Int"

\* VariableTraverser::assign_expression_type: the Result and the node as the
\* call leaves it (on Err the children typed so far keep their types)
RECURSIVE assign_expression_type(_, _)
assign_expression_type(node, table) ==
    CASE node.kind = "Variable" ->
            IF node.name \in DOMAIN table
            THEN SOk([node EXCEPT !.t = table[node.name]])
            ELSE SErr(node, "Usage of undefined variable")
      [] node.kind = "UnaryOperation" ->
            LET sub == assign_expression_type(node.expression, table)
                with == [node EXCEPT !.expression = sub.node]
            IN  IF sub.st # "Ok" THEN [sub EXCEPT !.node = with]
                ELSE IF ~is_numeric(sub.node.t)
                THEN SErr(with, "Invalid type for unary operation")
                ELSE SOk([with EXCEPT !.t = sub.node.t])
      [] node.kind = "BinaryOperation" ->
            LET left == assign_expression_type(node.left_expr, table)
                withl == [node EXCEPT !.left_expr = left.node]
                right == assign_expression_type(node.right_expr, table)
                withlr == [withl EXCEPT !.right_expr = right.node]
            IN  IF left.st # "Ok" THEN [left EXCEPT !.node = withl]
                ELSE IF right.st # "Ok" THEN [right EXCEPT !.node = withlr]
                ELSE IF ~is_numeric(left.node.t) \/ ~is_numeric(right.node.t)
                THEN SErr(withlr, "Invalid types for binary operation")
                ELSE SOk([withlr EXCEPT !.t = binary_type(left.node.t, right.node.t)])
      [] node.kind = "FunctionCall" ->
            SErr(node, "Function calls in expressions aren't supported yet")
      [] node.kind = "IntLiteral" -> SOk([node EXCEPT !.t = "Int"])
      [] node.kind = "FloatLiteral" -> SOk([node EXCEPT !.t = "Float"])
      [] node.kind = "BoolLiteral" -> SOk([node EXCEPT !.t = "Bool"])
      [] node.kind = "CharLiteral" -> SOk([node EXCEPT !.t = "Char"])
      [] node.kind = "StringLiteral" -> SOk([node EXCEPT !.t = "Str"])

\* what one turn of the loop of traverse leaves: st is "Run" when the loop
\* goes on, "Err" or "Panic" when traverse ends there
TRun(cmd, table) == [st |-> "Run", cmd |-> cmd, table |-> table, msg |-> ""]

TErr(cmd, table, msg) == [st |-> "Err", cmd |-> cmd, table |-> table, msg |-> msg]

TPanic(cmd, table) == [st |-> "Panic", cmd |-> cmd, table |-> table, msg |-> "panic"]

types_conflict_unless_numeric(a, b) == a # b /\ ~(is_numeric(a) /\ is_numeric(b))

\* vtype != *right_type in a variable definition
definition_types_conflict(vtype, right_type) == vtype # right_type

\* *vtype != *right_type in a variable assignment
assignment_types_conflict(vtype, right_type) == vtype # right_type

traverse_definition_once(cmd, table) ==
    IF cmd.name \in DOMAIN table
    THEN TErr(cmd, table, "Variable is already defined")
    ELSE LET right == assign_expression_type(cmd.expression, table)
             typed == [cmd EXCEPT !.expression = right.node]
         IN  IF cmd.vtype.some
             THEN LET vtype == Type_from(cmd.vtype.val)
                  IN  IF vtype = "Panic" THEN TPanic(cmd, table)
                      ELSE IF cmd.expression = NoNode
                      THEN TRun(cmd, insert(table, cmd.name, vtype))
                      ELSE IF right.st # "Ok" THEN TErr(typed, table, right.msg)
                      ELSE IF definition_types_conflict(vtype, right.node.t)
                      THEN TErr(typed, table, "Mismatching variable types in variable definition")
                      ELSE TRun(typed, insert(table, cmd.name, vtype))
             ELSE IF cmd.expression = NoNode
                  THEN TErr(cmd, table, "Undefined type for variable definition!")
                  ELSE IF right.st # "Ok" THEN TErr(typed, table, right.msg)
                  ELSE TRun(typed, insert(table, cmd.name, right.node.t))

\* the VariableDefinitionNode arm of traverse
traverse_definition(cmd, table) ==
    LET right == assign_expression_type(cmd.expression, table)
        typed == [cmd EXCEPT !.expression = right.node]
    IN  IF cmd.vtype.some
        THEN LET vtype == Type_from(cmd.vtype.val)
             IN  IF vtype = "Panic" THEN TPanic(cmd, table)
                 ELSE IF cmd.expression = NoNode
                 THEN TRun(cmd, insert(table, cmd.name, vtype))
                 ELSE IF right.st # "Ok" THEN TErr(typed, table, right.msg)
                 ELSE IF definition_types_conflict(vtype, right.node.t)
                 THEN TErr(typed, table, "Mismatching variable types in variable definition")
                 ELSE TRun(typed, insert(table, cmd.name, vtype))
        ELSE IF cmd.expression = NoNode
             THEN TErr(cmd, table, "Undefined type for variable definition!")
             ELSE IF right.st # "Ok" THEN TErr(typed, table, right.msg)
             ELSE TRun(typed, insert(table, cmd.name, right.node.t))

traverse_assignment_defining(cmd, table) ==
    LET right == assign_expression_type(cmd.expression, table)
        typed == [cmd EXCEPT !.expression = right.node]
    IN  IF right.st # "Ok" THEN TErr(typed, table, right.msg)
        ELSE IF cmd.name \notin DOMAIN table
        THEN TRun(typed, insert(table, cmd.name, right.node.t))
        ELSE IF assignment_types_conflict(table[cmd.name], right.node.t)
        THEN TErr(typed, table, "Cannot assign expression to variable of another type")
        ELSE TRun(typed, table)

\* the VariableAssignmentNode arm of traverse
traverse_assignment(cmd, table) ==
    LET right == assign_expression_type(cmd.expression, table)
        typed == [cmd EXCEPT !.expression = right.node]
    IN  IF cmd.name \notin DOMAIN table
        THEN TErr(cmd, table, "Assigning to undefined variable")
        ELSE IF right.st # "Ok" THEN TErr(typed, table, right.msg)
        ELSE IF assignment_types_conflict(table[cmd.name], right.node.t)
        THEN TErr(typed, table, "Cannot assign expression to variable of another type")
        ELSE TRun(typed, table)

traverse_function_call_untyped(cmd, table) ==
    IF cmd.name # <<"p", "r", "i", "n", "t">>
    THEN TErr(cmd, table, "Undefined function")
    ELSE IF Len(cmd.args) # 1
    THEN TErr(cmd, table, "Invalid number of elements for print function!")
    ELSE TRun(cmd, table)

traverse_function_call_any_name(cmd, table) ==
    IF Len(cmd.args) # 1
    THEN TErr(cmd, table, "Invalid number of elements for print function!")
    ELSE LET arg == assign_expression_type(cmd.args[1], table)
             typed == [cmd EXCEPT !.args = <<arg.node>>]
         IN  IF arg.st # "Ok" THEN TErr(typed, table, arg.msg)
             ELSE TRun(typed, table)

\* the FunctionCallNode arm of traverse
traverse_function_call(cmd, table) ==
    IF cmd.name # <<"p", "r", "i", "n", "t">>
    THEN TErr(cmd, table, "Undefined function")
    ELSE IF Len(cmd.args) # 1
    THEN TErr(cmd, table, "Invalid number of elements for print function!")
    ELSE LET arg == assign_expression_type(cmd.args[1], table)
             typed == [cmd EXCEPT !.args = <<arg.node>>]
         IN  IF arg.st # "Ok" THEN TErr(typed, table, arg.msg)
             ELSE TRun(typed, table)

\* one turn of the loop of VariableTraverser::traverse
traverse_command(cmd, table) ==
    CASE cmd.kind = "VariableDefinition" -> traverse_definition(cmd, table)
      [] cmd.kind = "VariableAssignment" -> traverse_assignment(cmd, table)
      [] cmd.kind = "FunctionCallCommand" -> traverse_function_call(cmd, table)

\* traverse run to its end from command i + 1 of cmds
RECURSIVE traverse_loop(_, _, _)
traverse_loop(cmds, i, table) ==
    IF i >= Len(cmds)
    THEN [st |-> "Ok", commands |-> cmds, table |-> table, msg |-> ""]
    ELSE LET r == traverse_command(cmds[i + 1], table)
             done == [cmds EXCEPT ![i + 1] = r.cmd]
         IN  IF r.st = "Run"
             THEN traverse_loop(done, i + 1, r.table)
             ELSE [st |-> r.st, commands |-> done, table |-> r.table, msg |-> r.msg]

traverse(cmds, table) == traverse_loop(cmds, 0, table)

(***************************************************************************)
(* The state machine.  One action is one turn of a loop of the code:       *)
(* create_tokens, Parser::parse, VariableTraverser::traverse.              *)
(***************************************************************************)
Running == [st |-> "Run", msg |-> ""]

Result(st, msg) == [st |-> st, msg |-> msg]

\* one turn of `while !tokenizer.is_empty()` in create_tokens
LexStep ==
    /\ stage = "lex"
    /\ chars # <<>>
    /\ LET s == create_tokens_step(chars, tokens)
       IN  /\ chars' = s.chars
           /\ tokens' = s.tokens
           /\ lexres' = IF s.st = "Run" THEN lexres ELSE Result(s.st, s.msg)
           /\ stage' = IF s.st = "Run" THEN "lex" ELSE "done"
    /\ UNCHANGED <<source, idx, commands, parseres, scope, cmd_i, variable_table, semres>>

\* create_tokens returns Ok(tokens)
LexFinish ==
    /\ stage = "lex"
    /\ chars = <<>>
    /\ lexres' = Result("Ok", "")
    /\ stage' = "lexed"
    /\ UNCHANGED <<source, chars, tokens, idx, commands, parseres, scope, cmd_i,
                   variable_table, semres>>

\* Parser::new(tokens)
StartParse ==
    /\ stage = "lexed"
    /\ idx' = 0
    /\ commands' = <<>>
    /\ stage' = "parse"
    /\ UNCHANGED <<source, chars, tokens, lexres, parseres, scope, cmd_i,
                   variable_table, semres>>

\* one turn of `while self.idx < self.tokens.len()` in Parser::parse
ParseCommand ==
    /\ stage = "parse"
    /\ idx < Len(tokens)
    /\ LET r == parse_command(tokens, idx)
       IN  /\ idx' = r.idx
           /\ commands' = IF r.st = "Ok" THEN Append(commands, r.node) ELSE commands
           /\ parseres' = IF r.st = "Ok" THEN parseres ELSE Result(r.st, r.msg)
           /\ stage' = IF r.st = "Ok" THEN "parse" ELSE "done"
    /\ UNCHANGED <<source, chars, tokens, lexres, scope, cmd_i, variable_table, semres>>

\* Parser::parse returns Ok(scope_node)
ParseFinish ==
    /\ stage = "parse"
    /\ idx >= Len(tokens)
    /\ parseres' = Result("Ok", "")
    /\ stage' = "parsed"
    /\ UNCHANGED <<source, chars, tokens, lexres, idx, commands, scope, cmd_i,
                   variable_table, semres>>

\* run returns Ok(()) once Parser::parse has returned the scope
RunReturnOk ==
    /\ stage = "parsed"
    /\ stage' = "run_ok"
    /\ UNCHANGED <<source, chars, tokens, lexres, idx, commands, parseres, scope, cmd_i,
                   variable_table, semres>>

\* VariableTraverser::new() and the call of traverse on the parsed scope
StartTraverse ==
    /\ stage = "parsed"
    /\ scope' = commands
    /\ variable_table' = EmptyTable
    /\ cmd_i' = 0
    /\ stage' = "sem"
    /\ UNCHANGED <<source, chars, tokens, lexres, idx, commands, parseres, semres>>

\* one turn of `for command in &mut scope_node.commands` in traverse
TraverseCommand ==
    /\ stage = "sem"
    /\ cmd_i < Len(scope)
    /\ LET r == traverse_command(scope[cmd_i + 1], variable_table)
       IN  /\ scope' = [scope EXCEPT ![cmd_i + 1] = r.cmd]
           /\ variable_table' = r.table
           /\ cmd_i' = IF r.st = "Run" THEN cmd_i + 1 ELSE cmd_i
           /\ semres' = IF r.st = "Run" THEN semres ELSE Result(r.st, r.msg)
           /\ stage' = IF r.st = "Run" THEN "sem" ELSE "done"
    /\ UNCHANGED <<source, chars, tokens, lexres, idx, commands, parseres>>

\* traverse returns Ok(())
TraverseFinish ==
    /\ stage = "sem"
    /\ cmd_i >= Len(scope)
    /\ semres' = Result("Ok", "")
    /\ stage' = "done"
    /\ UNCHANGED <<source, chars, tokens, lexres, idx, commands, parseres, scope,
                   cmd_i, variable_table>>

(***************************************************************************)
(* Inputs                                                                  *)
(***************************************************************************)
\* the longest source text given to the lexer alone
MaxSrcLen == 5

\* the most operators in a chain of plain operands given to the parser
MaxChain == 3

\* the most definitions that precede the command under analysis
MaxDefs == 1

RECURSIVE SeqsUpTo(_, _)
SeqsUpTo(S, n) ==
    IF n = 0 THEN {<<>>}
    ELSE LET shorter == SeqsUpTo(S, n - 1)
         IN  shorter \cup {Append(q, e) : q \in {r \in shorter : Len(r) = n - 1}, e \in S}

RECURSIVE Concat(_)
Concat(ss) == IF ss = <<>> THEN <<>> ELSE Head(ss) \o Concat(Tail(ss))

LexAlphabet == {"/", "\n", "é", "a", "'", "1", "."}

LexSources == SeqsUpTo(LexAlphabet, MaxSrcLen)

\* ---- token sequences for the parser ----
TName(c) == Token("Name", <<c>>)

TOp(c) == Token("Operator", <<c>>)

TNum == Token("NumberLiteral", <<"1">>)

TSemi == Token("Semicolon", <<";">>)

TComma == Token("Comma", <<",">>)

TOpen == Token("OpenParen", <<"(">>)

TClose == Token("CloseParen", <<")">>)

TAssign == Token("AssignmentOperator", <<"=">>)

TLet == Token("Keyword", <<"l", "e", "t">>)

TPrint == Token("Name", <<"p", "r", "i", "n", "t">>)

AdditiveChars == {"+", "-"}

MultiplicativeChars == {"*", "/", "%"}

OperatorChars == AdditiveChars \cup MultiplicativeChars

\* operands that are not function calls: a variable, a literal, a prefixed
\* operand, a parenthesized expression
OperandToks ==
    {<<TName("a")>>, <<TNum>>, <<TOp("-"), TName("b")>>,
     <<TOpen, TName("a"), TOp("+"), TNum, TClose>>}

\* the places an expression stands in: x = e ;   print ( e ) ;   f ( e , 1 ) ;
Wrappers == {"assign", "argument", "first_argument"}

Wrap(w, e) ==
    CASE w = "assign" -> <<TName("x"), TAssign>> \o e \o <<TSemi>>
      [] w = "argument" -> <<TPrint, TOpen>> \o e \o <<TClose, TSemi>>
      [] w = "first_argument" ->
            <<TName("f"), TOpen>> \o e \o <<TComma, TNum, TClose, TSemi>>

\* the expression of a wrapped command
Wrapped(w, cmd) == IF w = "assign" THEN cmd.expression ELSE cmd.args[1]

ChainNames == <<"a", "b", "c", "d", "e", "f", "g">>

\* a b c ... joined by the operators ops
RECURSIVE Chain(_, _)
Chain(ops, k) ==
    IF k > Len(ops) THEN <<TName(ChainNames[k])>>
    ELSE <<TName(ChainNames[k]), TOp(ops[k])>> \o Chain(ops, k + 1)

OperandTriples ==
    {a \o <<TOp(p)>> \o b \o <<TOp(q)>> \o c :
        a \in OperandToks, b \in OperandToks, c \in OperandToks,
        p \in OperatorChars, q \in OperatorChars}

\* function calls as operands, each with the node it stands for
CallOperands ==
    {[toks |-> <<TName("f"), TOpen, TClose>>,
      node |-> FunctionCallExpr(<<"f">>, <<>>)],
     [toks |-> <<TName("f"), TOpen, TNum, TClose>>,
      node |-> FunctionCallExpr(<<"f">>, <<IntLiteralNode(<<"1">>)>>)],
     [toks |-> <<TName("f"), TOpen, TName("a"), TComma, TNum, TClose>>,
      node |-> FunctionCallExpr(<<"f">>, <<VariableNode(<<"a">>), IntLiteralNode(<<"1">>)>>)]}

\* a call alone, before an operator, after an operator
CallExpressions ==
    UNION {{c.toks, c.toks \o <<TOp("+"), TNum>>, <<TNum, TOp("+")>> \o c.toks} :
            c \in CallOperands}

\* the texts of number literal tokens
NumberTexts ==
    {<<"1">>, <<"0">>, <<"0", "0", "7">>, <<"4", "2", "0">>, <<"1", ".", "5">>,
     <<"0", "1", "0", ".", "5", "0">>, I64MaxDigits,
     <<"9", "2", "2", "3", "3", "7", "2", "0", "3", "6", "8", "5", "4", "7", "7", "5",
       "8", "0", "8">>}

TNumber(text) == Token("NumberLiteral", text)

\* x op= e ;
CompoundToks(op, e) ==
    <<TName("x"), Token("AssignmentOperator", <<op, "=">>)>> \o e \o <<TSemi>>

\* the right-hand sides of the compound assignments
CompoundExprs ==
    OperandToks \cup {Chain(ops, 1) : ops \in SeqsUpTo(OperatorChars, MaxChain)}

ParseInputs ==
    {Wrap(w, e) : w \in Wrappers,
                  e \in OperandTriples
                        \cup {Chain(ops, 1) : ops \in SeqsUpTo(OperatorChars, MaxChain)}
                        \cup OperandToks
                        \cup CallExpressions
                        \cup {<<TNumber(text)>> : text \in NumberTexts}}
    \cup {CompoundToks(op, e) : op \in OperatorChars, e \in CompoundExprs}

\* ---- scopes for the traverser ----
NameX == <<"x">>

NameY == <<"y">>

PrintName == <<"p", "r", "i", "n", "t">>

IntLit == IntLiteralNode(<<"1">>)

FloatLit == FloatLiteralNode(<<"1", ".", "5">>)

CharLit == CharLiteralNode("a")

SemAtoms ==
    {VariableNode(NameX), VariableNode(NameY), IntLit, FloatLit, BoolLiteralNode(TRUE),
     CharLit, StringLiteralNode(<<"s">>), FunctionCallExpr(PrintName, <<IntLit>>)}

NestAtoms == {VariableNode(NameX), IntLit, FloatLit, CharLit}

SemExprs ==
    SemAtoms
    \cup {UnaryOperationNode("Minus", a) : a \in SemAtoms}
    \cup {BinaryOperationNode(a, op, b) : a \in SemAtoms, op \in Operators, b \in SemAtoms}
    \cup {BinaryOperationNode(UnaryOperationNode("Plus", a), "Multiply",
                              BinaryOperationNode(b, "Minus", c)) :
            a \in NestAtoms, b \in NestAtoms, c \in NestAtoms}

TypeNames == {<<"i", "n", "t">>, <<"f", "l", "o", "a", "t">>, <<"b", "o", "o", "l">>,
              <<"c", "h", "a", "r">>, <<"s", "t", "r">>}

\* the definitions that build the symbol table before the last command
SimpleDefs ==
    {VariableDefinitionNode(NoneOpt, NameX, IntLit),
     VariableDefinitionNode(NoneOpt, NameX, FloatLit),
     VariableDefinitionNode(NoneOpt, NameX, CharLit),
     VariableDefinitionNode(NoneOpt, NameY, FloatLit)}

LastCommands ==
    {VariableDefinitionNode(vt, NameX, e) :
        vt \in {NoneOpt} \cup {Some(n) : n \in INBUILT_TYPES}, e \in SemExprs \cup {NoNode}}
    \cup {VariableAssignmentNode(NameX, e) : e \in SemExprs}
    \cup {FunctionCallNode(PrintName, <<e>>) : e \in SemExprs}
    \cup {FunctionCallNode(PrintName, <<>>), FunctionCallNode(PrintName, <<IntLit, IntLit>>),
          FunctionCallNode(PrintName, <<VariableNode(NameY), IntLit>>),
          FunctionCallNode(<<"f">>, <<IntLit>>), FunctionCallNode(<<"f">>, <<>>),
          FunctionCallNode(<<"f">>, <<IntLit, IntLit>>)}

\* second definitions of x, after a first one
Redefinitions ==
    {VariableDefinitionNode(NoneOpt, NameX, IntLit),
     VariableDefinitionNode(NoneOpt, NameX, FloatLit),
     VariableDefinitionNode(Some(<<"c", "h", "a", "r">>), NameX, CharLit),
     VariableDefinitionNode(Some(<<"i", "n", "t">>), NameX, NoNode),
     VariableDefinitionNode(Some(<<"i", "n", "t">>), NameX, FloatLit),
     VariableDefinitionNode(NoneOpt, NameX, VariableNode(NameX)),
     VariableDefinitionNode(NoneOpt, NameX,
                            BinaryOperationNode(VariableNode(NameX), "Plus", FloatLit))}

\* commands that use x after its redefinition
AfterRedefinition ==
    {VariableAssignmentNode(NameX, IntLit),
     VariableAssignmentNode(NameX, FloatLit),
     VariableAssignmentNode(NameX, CharLit),
     FunctionCallNode(PrintName, <<VariableNode(NameX)>>),
     VariableDefinitionNode(NoneOpt, NameY,
                            BinaryOperationNode(VariableNode(NameX), "Plus", IntLit))}

RedefinitionScopes ==
    {<<first, second, last>> :
        first \in SimpleDefs, second \in Redefinitions, last \in AfterRedefinition}

SemScopes ==
    {defs \o <<last>> : defs \in SeqsUpTo(SimpleDefs, MaxDefs), last \in LastCommands}

\* ---- scopes for repeated calls of traverse ----
LaterCommands ==
    {VariableAssignmentNode(NameX, IntLit),
     FunctionCallNode(PrintName, <<VariableNode(NameX)>>),
     FunctionCallNode(PrintName, <<VariableNode(NameY)>>),
     FunctionCallNode(PrintName, <<IntLit>>),
     VariableDefinitionNode(NoneOpt, NameY, VariableNode(NameX))}

LaterScopes ==
    {defs \o <<last>> : defs \in SeqsUpTo(SimpleDefs, MaxDefs), last \in LaterCommands}

\* ---- source texts for the whole pipeline ----
PrefixDefTexts ==
    {<<"l", "e", "t", " ", "x", "=", "1", ";">>,
     <<"l", "e", "t", " ", "x", "=", "1", ".", "5", ";">>,
     <<"l", "e", "t", " ", "x", "=", "'", "a", "'", ";">>}

\* the texts that build the symbol table before the last command
PipelinePrefixes == {Concat(q) : q \in SeqsUpTo(PrefixDefTexts, MaxDefs)}

ExprTexts ==
    {<<"1">>, <<"1", ".", "5">>, <<"x">>, <<"y">>, <<"-", "1">>, <<"'", "a", "'">>,
     <<"1", "+", "2">>, <<"2", "*", "x">>, <<"1", ".", "5", "-", "x">>,
     <<"f", "(", ")">>}

\* x op= e;
Compound(op, e) == <<"x", op, "=">> \o e \o <<";">>

\* x = x op (e);
Expanded(op, e) == <<"x", "=", "x", op, "(">> \o e \o <<")", ";">>

PrintOne == <<"p", "r", "i", "n", "t", "(", "1", ")">>

\* commands with a function call as an operand of an expression
CallOperandCmds ==
    {<<"l", "e", "t", " ", "x", "=">> \o PrintOne \o <<"+", "1", ";">>,
     <<"l", "e", "t", " ", "x", "=">> \o PrintOne \o <<";">>,
     <<"l", "e", "t", " ", "x", "=", "1", "+">> \o PrintOne \o <<";">>,
     <<"x", "=">> \o PrintOne \o <<";">>,
     <<"p", "r", "i", "n", "t", "(">> \o PrintOne \o <<")", ";">>}

LiteralTexts ==
    {<<"1">>, <<"1", ".", "5">>, <<"'", "a", "'">>, <<"t", "r", "u", "e">>,
     <<"\"", "s", "\"">>, <<"'", "'">>, <<"'", "a", "b", "'">>}

\* let T x = literal;
TypedDefTexts ==
    {<<"l", "e", "t", " ">> \o T \o <<" ", "x", "=">> \o v \o <<";">> :
        T \in INBUILT_TYPES, v \in LiteralTexts}

LastCommandTexts ==
    {Compound(op, e) : op \in OperatorChars, e \in ExprTexts}
    \cup {Expanded(op, e) : op \in OperatorChars, e \in ExprTexts}
    \cup CallOperandCmds
    \cup {<<"l", "e", "t", " ", "x", "=">> \o PrintOne \o <<";", ";">>}
    \cup TypedDefTexts

Programs == {P \o c : P \in PipelinePrefixes, c \in LastCommandTexts}

(***************************************************************************)
(* Specifications                                                          *)
(***************************************************************************)
\* the lexer alone, on every short text over LexAlphabet
InitLex ==
    /\ source \in LexSources
    /\ stage = "lex"
    /\ chars = source
    /\ tokens = <<>>
    /\ lexres = Running
    /\ idx = 0
    /\ commands = <<>>
    /\ parseres = Running
    /\ scope = <<>>
    /\ cmd_i = 0
    /\ variable_table = EmptyTable
    /\ semres = Running

NextLex == LexStep \/ LexFinish

SpecLex == InitLex /\ [][NextLex]_vars

\* the parser alone, on the token sequences of ParseInputs
InitParse ==
    /\ tokens \in ParseInputs
    /\ stage = "parse"
    /\ source = <<>>
    /\ chars = <<>>
    /\ lexres = Result("Ok", "")
    /\ idx = 0
    /\ commands = <<>>
    /\ parseres = Running
    /\ scope = <<>>
    /\ cmd_i = 0
    /\ variable_table = EmptyTable
    /\ semres = Running

NextParse == ParseCommand \/ ParseFinish

SpecParse == InitParse /\ [][NextParse]_vars

\* the whole pipeline on the source texts of Programs: create_tokens, then
\* Parser::parse on its tokens, then traverse on the parsed scope
\* (lib.rs run performs the first two stages and returns; the traverser is
\* applied here to the tree the parser built, each node's t still None)
Init ==
    /\ source \in Programs
    /\ stage = "lex"
    /\ chars = source
    /\ tokens = <<>>
    /\ lexres = Running
    /\ idx = 0
    /\ commands = <<>>
    /\ parseres = Running
    /\ scope = <<>>
    /\ cmd_i = 0
    /\ variable_table = EmptyTable
    /\ semres = Running

Next ==
    \/ LexStep
    \/ LexFinish
    \/ StartParse
    \/ ParseCommand
    \/ ParseFinish
    \/ StartTraverse
    \/ TraverseCommand
    \/ TraverseFinish

Spec == Init /\ [][Next]_vars

\* run of lib.rs as it is written: create_tokens, Parser::parse, Ok(())
NextRun ==
    \/ LexStep
    \/ LexFinish
    \/ StartParse
    \/ ParseCommand
    \/ ParseFinish
    \/ RunReturnOk

SpecRun == Init /\ [][NextRun]_vars

\* traverse is called again on the same VariableTraverser, with another
\* scope, after an earlier call returned: nothing resets variable_table
TraverseAgain ==
    /\ stage = "done"
    /\ semres.st \in {"Ok", "Err"}
    /\ \E next_scope \in LaterScopes :
          /\ scope' = next_scope
          /\ commands' = next_scope
    /\ cmd_i' = 0
    /\ semres' = Running
    /\ stage' = "sem"
    /\ UNCHANGED <<source, chars, tokens, lexres, idx, parseres, variable_table>>

\* one VariableTraverser, traverse called on one scope after another
InitReuse ==
    /\ scope \in LaterScopes
    /\ stage = "sem"
    /\ source = <<>>
    /\ chars = <<>>
    /\ tokens = <<>>
    /\ lexres = Result("Ok", "")
    /\ idx = 0
    /\ commands = scope
    /\ parseres = Result("Ok", "")
    /\ cmd_i = 0
    /\ variable_table = EmptyTable
    /\ semres = Running

NextReuse == TraverseCommand \/ TraverseFinish \/ TraverseAgain

SpecReuse == InitReuse /\ [][NextReuse]_vars

(***************************************************************************)
(* Properties of the parser                                                *)
(***************************************************************************)
\* the node the parser builds for an operand standing alone
OperandNode(a) == parse_single_value(a \o <<TSemi>>, 0).node

Op(c) == Operator_from(<<c>>)

ParseEnded == stage # "parse"

RECURSIVE Flatten(_)
Flatten(node) ==
    IF node.kind = "BinaryOperation"
    THEN Flatten(node.left_expr) \o <<node.operator>> \o Flatten(node.right_expr)
    ELSE <<node.name>>

\* no operator has, as its right operand, an operation of its own priority
\* (or a lower one)
RECURSIVE LeansLeft(_)
LeansLeft(node) ==
    node.kind = "BinaryOperation" =>
        /\ LeansLeft(node.left_expr)
        /\ LeansLeft(node.right_expr)
        /\ node.right_expr.kind = "BinaryOperation" =>
              (IF node.right_expr.operator \in {"Plus", "Minus"} THEN 1 ELSE 2)
                  > (IF node.operator \in {"Plus", "Minus"} THEN 1 ELSE 2)

RECURSIVE FlatChain(_, _)
FlatChain(ops, k) ==
    IF k > Len(ops) THEN <<<<ChainNames[k]>>>>
    ELSE <<<<ChainNames[k]>>, Op(ops[k])>> \o FlatChain(ops, k + 1)

SamePriority(p, q) == (p \in AdditiveChars) = (q \in AdditiveChars)

Var(c) == VariableNode(<<c>>)

\* C2 (left-associativity): in a chain of operators two adjacent operators
\* of equal priority associate to the left: a p1 b p2 c with p1, p2 of one
\* priority parses to ((a p1 b) p2 c), and a multiplicative chain after an
\* additive operator, a p b m1 c m2 d, parses to a p ((b m1 c) m2 d).
C2_LeftAssociative ==
    ParseEnded =>
        \A w \in Wrappers :
            /\ \A ops \in SeqsUpTo(OperatorChars, MaxChain) :
                 tokens = Wrap(w, Chain(ops, 1)) =>
                    /\ parseres.st = "Ok"
                    /\ Len(commands) = 1
                    /\ Flatten(Wrapped(w, commands[1])) = FlatChain(ops, 1)
                    /\ LeansLeft(Wrapped(w, commands[1]))
            /\ \A p1 \in OperatorChars, p2 \in OperatorChars :
                 (SamePriority(p1, p2) /\ tokens = Wrap(w, Chain(<<p1, p2>>, 1))) =>
                    Wrapped(w, commands[1]) =
                        BinaryOperationNode(
                            BinaryOperationNode(Var("a"), Op(p1), Var("b")), Op(p2), Var("c"))
            /\ \A p \in AdditiveChars, m1 \in MultiplicativeChars, m2 \in MultiplicativeChars :
                 tokens = Wrap(w, Chain(<<p, m1, m2>>, 1)) =>
                    Wrapped(w, commands[1]) =
                        BinaryOperationNode(Var("a"), Op(p),
                            BinaryOperationNode(
                                BinaryOperationNode(Var("b"), Op(m1), Var("c")),
                                Op(m2), Var("d")))

\* C2 witness: x = a + b * c / d ; has been parsed with (b * c) / d as the
\* right operand of Plus
C2_Witness ==
    /\ parseres.st = "Ok"
    /\ tokens = Wrap("assign", Chain(<<"+", "*", "/">>, 1))
    /\ commands[1].expression.right_expr.operator = "Divide"
    /\ commands[1].expression.right_expr.left_expr.operator = "Multiply"

\* the traverser alone, on the scopes of SemScopes, from an empty table
InitSem ==
    /\ (scope \in SemScopes \/ scope \in RedefinitionScopes)
    /\ stage = "sem"
    /\ source = <<>>
    /\ chars = <<>>
    /\ tokens = <<>>
    /\ lexres = Result("Ok", "")
    /\ idx = 0
    /\ commands = scope
    /\ parseres = Result("Ok", "")
    /\ cmd_i = 0
    /\ variable_table = EmptyTable
    /\ semres = Running

NextSem == TraverseCommand \/ TraverseFinish

SpecSem == InitSem /\ [][NextSem]_vars

(***************************************************************************)
(* Properties of the lexer                                                 *)
(***************************************************************************)
HasNewline(s) == \E i \in 1..Len(s) : s[i] = "\n"

FirstNewline(s) == CHOOSE i \in 1..Len(s) : s[i] = "\n" /\ \A j \in 1..(i - 1) : s[j] # "\n"

StartsComment(s) == Len(s) >= 2 /\ s[1] = "/" /\ s[2] = "/"

\* C6 (comment transparency): tokenizing "//" t "\n" S succeeds exactly when
\* tokenizing S succeeds and yields the same tokens; a comment that runs to
\* the end of the source gives no error and no abort; the lexer consumes a
\* comment up to, and not including, the next newline and nothing beyond it.
C6_CommentTransparent ==
    /\ (lexres.st # "Run" /\ StartsComment(source) /\ HasNewline(source)) =>
          LET S == SubSeq(source, FirstNewline(source) + 1, Len(source))
          IN  /\ (lexres.st = "Ok") = (create_tokens(S).st = "Ok")
              /\ lexres.st = "Ok" => tokens = create_tokens(S).tokens
    /\ (stage = "lex" /\ StartsComment(chars)) =>
          /\ create_tokens_step(chars, tokens).st = "Run"
          /\ create_tokens_step(chars, tokens).chars =
                IF HasNewline(chars)
                THEN SubSeq(chars, FirstNewline(chars), Len(chars))
                ELSE <<>>

(***************************************************************************)
(* Properties of the traverser                                             *)
(***************************************************************************)
\* the expression nodes below and including node
RECURSIVE SubNodes(_)
SubNodes(node) ==
    {node} \cup
    CASE node.kind = "BinaryOperation" ->
            SubNodes(node.left_expr) \cup SubNodes(node.right_expr)
      [] node.kind = "UnaryOperation" -> SubNodes(node.expression)
      [] node.kind = "FunctionCall" ->
            UNION {SubNodes(node.args[j]) : j \in 1..Len(node.args)}
      [] OTHER -> {}

\* every expression node reachable in a command
CommandNodes(cmd) ==
    CASE cmd.kind = "FunctionCallCommand" ->
            UNION {SubNodes(cmd.args[j]) : j \in 1..Len(cmd.args)}
      [] cmd.expression = NoNode -> {}
      [] OTHER -> SubNodes(cmd.expression)

ScopeNodes == UNION {CommandNodes(scope[k]) : k \in 1..Len(scope)}

TypedOk(r) == r.st = "Ok" /\ r.node.t \in {"Int", "Float"}

\* C3 (binary operation typing): for every BinaryOperation node, whatever
\* its operator, typing succeeds iff both operands type successfully with
\* type Int or Float; the type is then Float if an operand is Float and Int
\* otherwise; an operand of type Bool, Char or Str gives an error.
C3_BinaryTyping ==
    \A n \in ScopeNodes :
        n.kind = "BinaryOperation" =>
            LET r == assign_expression_type(n, variable_table)
                left == assign_expression_type(n.left_expr, variable_table)
                right == assign_expression_type(n.right_expr, variable_table)
            IN  /\ r.st \in {"Ok", "Err"}
                /\ (r.st = "Ok") = (TypedOk(left) /\ TypedOk(right))
                /\ r.st = "Ok" =>
                      r.node.t = IF left.node.t = "Float" \/ right.node.t = "Float"
                                 THEN "Float" ELSE "Int"
                /\ n.t # None =>
                      /\ n.left_expr.t \in {"Int", "Float"}
                      /\ n.right_expr.t \in {"Int", "Float"}
                      /\ n.t = IF n.left_expr.t = "Float" \/ n.right_expr.t = "Float"
                               THEN "Float" ELSE "Int"

\* C3 witness: let x = 1 + 1.5; has been analyzed and records x : Float
C3_Witness ==
    /\ semres.st = "Ok"
    /\ Len(scope) = 1
    /\ scope[1].kind = "VariableDefinition"
    /\ scope[1].expression.kind = "BinaryOperation"
    /\ scope[1].expression.left_expr.t = "Int"
    /\ scope[1].expression.right_expr.t = "Float"
    /\ scope[1].expression.t = "Float"
    /\ variable_table[NameX] = "Float"

\* C7 (complete annotation): when traverse returns Ok, every expression
\* node reachable in the scope has its type slot set.
C7_CompleteAnnotation ==
    semres.st = "Ok" => \A n \in ScopeNodes : n.t \in Types

\* C7 witness: traverse returned Ok on a scope that ends in print(e) with e
\* an operation over nested operations
C7_Witness ==
    /\ semres.st = "Ok"
    /\ scope[Len(scope)].kind = "FunctionCallCommand"
    /\ scope[Len(scope)].args[1].kind = "BinaryOperation"
    /\ scope[Len(scope)].args[1].left_expr.kind = "UnaryOperation"
    /\ scope[Len(scope)].args[1].right_expr.kind = "BinaryOperation"

Accepted == stage' = "sem" /\ cmd_i' = cmd_i + 1 /\ semres' = semres

C10_AssignmentTypeCheck ==
    [][(/\ stage = "sem"
        /\ cmd_i < Len(scope)
        /\ scope[cmd_i + 1].kind = "VariableAssignment"
        /\ scope[cmd_i + 1].name \in DOMAIN variable_table)
       => LET r == assign_expression_type(scope[cmd_i + 1].expression, variable_table)
              recorded == variable_table[scope[cmd_i + 1].name]
          IN  /\ Accepted = (r.st = "Ok" /\ r.node.t = recorded)
              /\ variable_table' = variable_table
              /\ (r.st = "Ok" /\ r.node.t # recorded) =>
                    /\ stage' = "done"
                    /\ semres' = Result("Err",
                          "Cannot assign expression to variable of another type")]_vars

\* C10 witness: x = <an Int expression>; for x : Float has been rejected
C10_Witness ==
    /\ semres = Result("Err", "Cannot assign expression to variable of another type")
    /\ scope[cmd_i + 1].kind = "VariableAssignment"
    /\ scope[cmd_i + 1].expression.t = "Int"
    /\ variable_table[scope[cmd_i + 1].name] = "Float"

(***************************************************************************)
(* Properties of the pipeline                                              *)
(***************************************************************************)
\* the outcome of the three stages on a source text: whether all succeeded,
\* and the symbol table left behind
analyze_source(src) ==
    LET lexed == create_tokens(src)
        parsed == parse(lexed.tokens)
        analyzed == traverse(parsed.commands, EmptyTable)
    IN  IF lexed.st # "Ok" \/ parsed.st # "Ok"
        THEN [ok |-> FALSE, table |-> EmptyTable]
        ELSE [ok |-> analyzed.st = "Ok", table |-> analyzed.table]

\* C4 (nested function call rejection): every program with a function call
\* as an operand of an expression is tokenized and parsed successfully and
\* is then rejected by the traverser with the "function calls in
\* expressions aren't supported yet" error.
C4_CallOperandRejectedByTraverser ==
    (stage = "done" /\ \E P \in PipelinePrefixes, c \in CallOperandCmds : source = P \o c) =>
        /\ lexres.st = "Ok"
        /\ parseres.st = "Ok"
        /\ semres = Result("Err", "Function calls in expressions aren't supported yet")

\* C5 (internal abort unreachable): for every source text the lexer and the
\* parser accept, the traverser returns success or an error and never
\* reaches the fatal arm of Type::from; let uint x = 1; fails with an error.
C5_NoInternalAbort ==
    (lexres.st = "Ok" /\ parseres.st = "Ok") => semres.st # "Panic"

\* C8 (compound assignment): x op= e; gives the same outcome and the same
\* symbol table as x = x op (e);, from every symbol table.
C8_CompoundEquivalent ==
    stage = "done" =>
        \A P \in PipelinePrefixes, op \in OperatorChars, e \in ExprTexts :
            source = P \o Compound(op, e) =>
                LET expanded == analyze_source(P \o Expanded(op, e))
                IN  /\ (semres.st = "Ok") = expanded.ok
                    /\ variable_table = expanded.table

\* C8 witness: let x=1.5;x+=1; has been accepted, x + 1 typed Float
C8_Witness ==
    /\ stage = "done"
    /\ semres.st = "Ok"
    /\ source = <<"l", "e", "t", " ", "x", "=", "1", ".", "5", ";">> \o Compound("+", <<"1">>)
    /\ scope[2].expression.kind = "BinaryOperation"
    /\ scope[2].expression.left_expr = [VariableNode(NameX) EXCEPT !.t = "Float"]
    /\ scope[2].expression.t = "Float"

\* the names a command uses: the Variable nodes of its expressions and the
\* target of an assignment
UsedNames(cmd) ==
    {n.name : n \in {m \in CommandNodes(cmd) : m.kind = "Variable"}}
    \cup (IF cmd.kind = "VariableAssignment" THEN {cmd.name} ELSE {})

\* some command uses a name that no earlier command defines
UsesUndefined(cmds) ==
    \E k \in 1..Len(cmds) :
        \E n \in UsedNames(cmds[k]) :
            \A j \in 1..(k - 1) :
                ~(cmds[j].kind = "VariableDefinition" /\ cmds[j].name = n)

\* C11 (use before definition): when a name is used as an assignment target,
\* as a variable reference in an expression or in the argument of print, and
\* no earlier definition of it was analyzed successfully, traverse returns a
\* semantic error and does not abort.
C11_UseBeforeDefinition ==
    (stage = "done" /\ UsesUndefined(commands)) => semres.st = "Err"

\* the table without the entry of name
Forget(table, name) == [n \in DOMAIN table \ {name} |-> table[n]]

\* the type a definition command records once it is annotated
RecordedType(cmd) ==
    IF cmd.vtype.some THEN Type_from(cmd.vtype.val) ELSE cmd.expression.t

\* the type of a literal node
LiteralType(node) ==
    CASE node.kind = "IntLiteral" -> "Int"
      [] node.kind = "FloatLiteral" -> "Float"
      [] node.kind = "CharLiteral" -> "Char"

\* after first definition, redefinition and a later command: the table holds
\* the type of the redefinition, a later assignment is accepted iff its
\* expression has that type, and a later reference has that type
RedefinitionInForce ==
    (stage = "done" /\ commands \in RedefinitionScopes /\ cmd_i >= 2) =>
        /\ variable_table[NameX] = RecordedType(scope[2])
        /\ commands[3].kind = "VariableAssignment" =>
              (semres.st = "Ok") =
                  (LiteralType(commands[3].expression) = RecordedType(scope[2]))
        /\ commands[3].kind = "FunctionCallCommand" =>
              semres.st = "Ok" /\ scope[3].args[1].t = RecordedType(scope[2])

\* C12 (redefinition overwrites): a definition of a name already in the
\* symbol table succeeds whenever it would succeed for a fresh name, whatever
\* type is recorded; afterwards the table maps the name to the new type and
\* keeps every other entry; a later assignment to the name is accepted iff
\* its expression has the new type, and a later reference has the new type.
C12_RedefinitionOverwrites ==
    [][/\ (/\ stage = "sem"
           /\ cmd_i < Len(scope)
           /\ scope[cmd_i + 1].kind = "VariableDefinition"
           /\ scope[cmd_i + 1].name \in DOMAIN variable_table
           /\ traverse_definition(scope[cmd_i + 1],
                                  Forget(variable_table, scope[cmd_i + 1].name)).st = "Run")
          => (/\ Accepted
              /\ DOMAIN variable_table' = DOMAIN variable_table
              /\ variable_table'[scope[cmd_i + 1].name] = RecordedType(scope'[cmd_i + 1])
              /\ \A n \in DOMAIN variable_table \ {scope[cmd_i + 1].name} :
                    variable_table'[n] = variable_table[n])
       /\ RedefinitionInForce']_vars

\* C12 witness: let x = 1; let x = 1.5; x = 1.5; has been accepted and the
\* table records x : Float
C12_Witness ==
    /\ stage = "done"
    /\ semres.st = "Ok"
    /\ commands = <<VariableDefinitionNode(NoneOpt, NameX, IntLit),
                    VariableDefinitionNode(NoneOpt, NameX, FloatLit),
                    VariableAssignmentNode(NameX, FloatLit)>>
    /\ variable_table[NameX] = "Float"

LiteralKinds ==
    {"IntLiteral", "FloatLiteral", "BoolLiteral", "CharLiteral", "StringLiteral"}

\* C13 (function call statement rules): a function-call command is accepted
\* iff its name is print, it has exactly one argument and the argument types
\* successfully, whatever its type (a literal of each of the five types is
\* accepted); another name gives the "Undefined function" error; print with
\* no or with several arguments gives the "Invalid number" error.
C13_FunctionCallRules ==
    [][(/\ stage = "sem"
        /\ cmd_i < Len(scope)
        /\ scope[cmd_i + 1].kind = "FunctionCallCommand")
       => LET cmd == scope[cmd_i + 1]
              is_print == cmd.name = <<"p", "r", "i", "n", "t">>
          IN  /\ Accepted =
                    (/\ is_print
                     /\ Len(cmd.args) = 1
                     /\ assign_expression_type(cmd.args[1], variable_table).st = "Ok")
              /\ (is_print /\ Len(cmd.args) = 1 /\ cmd.args[1].kind \in LiteralKinds)
                    => Accepted
              /\ Accepted => scope'[cmd_i + 1].args[1].t \in Types
              /\ ~is_print => semres' = Result("Err", "Undefined function")
              /\ (is_print /\ Len(cmd.args) # 1) =>
                    semres' = Result("Err", "Invalid number of elements for print function!")
              /\ variable_table' = variable_table]_vars

\* C13 witness: print("s") has been accepted, its argument typed Str
C13_Witness ==
    /\ semres.st = "Ok"
    /\ scope[Len(scope)].kind = "FunctionCallCommand"
    /\ scope[Len(scope)].name = PrintName
    /\ scope[Len(scope)].args = <<[StringLiteralNode(<<"s">>) EXCEPT !.t = "Str"]>>

\* C14 (symbol table lifetime): every call of traverse starts from an empty
\* symbol table, so a name defined in an earlier call on the same
\* VariableTraverser is not visible, and a scope that uses a name without
\* defining it is rejected whatever scopes were analyzed before.
C14_TablePerPass ==
    /\ (stage = "sem" /\ cmd_i = 0) => variable_table = EmptyTable
    /\ (stage = "done" /\ UsesUndefined(commands)) => semres.st = "Err"

\* C15 (lexer failure policy): create_tokens returns the complete token list
\* or an error and nothing else; the error is returned at the first char
\* that next_token fails on, with no token returned and no later char
\* consumed; a token list is returned only when the whole source is consumed.
C15_FailurePolicy ==
    /\ lexres.st \in {"Run", "Ok", "Err"}
    /\ lexres.st = "Ok" => chars = <<>>
    /\ lexres.st = "Err" =>
          /\ stage = "done"
          /\ chars # <<>>
          /\ next_token(chars).st = "Err"
          /\ SubSeq(source, Len(source) - Len(chars) + 1, Len(source)) = chars
          /\ create_tokens(source).tokens = <<>>

\* C16 (pipeline order): a run reports success only after tokenization,
\* parsing and semantic analysis have each completed successfully, in that
\* order, the scope then fully type-annotated; a failure in a stage ends the
\* run and no later stage is started.
C16_SuccessAfterAllStages ==
    /\ stage = "run_ok" =>
          /\ lexres.st = "Ok"
          /\ parseres.st = "Ok"
          /\ semres.st = "Ok"
          /\ \A n \in ScopeNodes : n.t \in Types
    /\ parseres # Running => lexres.st = "Ok"
    /\ semres # Running => parseres.st = "Ok"
    /\ (lexres.st = "Err" \/ parseres.st = "Err") => stage = "done"

\* C17 (function call as an operand): a Name followed by ( is parsed as
\* name ( args ) into a FunctionCall expression node with the cursor left
\* after the closing parenthesis, so that the expression goes on: the call
\* may stand alone before ; , or ), before an operator or after one.
C17_CallOperand ==
    ParseEnded =>
        \A w \in Wrappers, c \in CallOperands :
            /\ tokens = Wrap(w, c.toks) =>
                  /\ parseres.st = "Ok"
                  /\ Len(commands) = 1
                  /\ Wrapped(w, commands[1]) = c.node
            /\ tokens = Wrap(w, c.toks \o <<TOp("+"), TNum>>) =>
                  /\ parseres.st = "Ok"
                  /\ Len(commands) = 1
                  /\ Wrapped(w, commands[1]) =
                        BinaryOperationNode(c.node, "Plus", IntLiteralNode(<<"1">>))
            /\ tokens = Wrap(w, <<TNum, TOp("+")>> \o c.toks) =>
                  /\ parseres.st = "Ok"
                  /\ Len(commands) = 1
                  /\ Wrapped(w, commands[1]) =
                        BinaryOperationNode(IntLiteralNode(<<"1">>), "Plus", c.node)

\* the decimal value of a run of digits, as its digits without leading zeros
DecimalValue(text) ==
    IF StripLeft(text, "0") = <<>> THEN <<"0">> ELSE StripLeft(text, "0")

\* C19 (number literal routing): for every number literal token, digits with
\* at most one interior '.', of any length, the parser returns a Float
\* literal node when the text holds a '.', and otherwise an Int literal node
\* with the decimal value of the digits; it never aborts.
C19_NumberRouting ==
    ParseEnded =>
        \A w \in Wrappers, text \in NumberTexts :
            tokens = Wrap(w, <<TNumber(text)>>) =>
                /\ parseres.st = "Ok"
                /\ Len(commands) = 1
                /\ Wrapped(w, commands[1]).kind =
                      IF \E i \in 1..Len(text) : text[i] = "."
                      THEN "FloatLiteral" ELSE "IntLiteral"
                /\ Wrapped(w, commands[1]).kind = "IntLiteral" =>
                      Wrapped(w, commands[1]).value = DecimalValue(text)

\* the tree of an expression parsed on its own
ExprTree(e) == parse_expression(e \o <<TSemi>>, 0).node

\* C20 (compound assignment shape): x op= e ; parses to
\* VariableAssignment(x, BinaryOperation(Variable(x), op, E)), E the tree of
\* the whole of e parsed on its own, also when e holds operators of lower
\* priority than op; x = e ; parses to VariableAssignment(x, E).
C20_CompoundShape ==
    ParseEnded =>
        /\ \A op \in OperatorChars, e \in CompoundExprs :
              tokens = CompoundToks(op, e) =>
                  /\ parseres.st = "Ok"
                  /\ commands = <<VariableAssignmentNode(<<"x">>,
                                    BinaryOperationNode(Var("x"), Op(op), ExprTree(e)))>>
        /\ \A op \in OperatorChars, p \in OperatorChars :
              tokens = CompoundToks(op, Chain(<<p>>, 1)) =>
                  commands[1].expression =
                      BinaryOperationNode(Var("x"), Op(op),
                          BinaryOperationNode(Var("a"), Op(p), Var("b")))
        /\ \A e \in CompoundExprs :
              tokens = Wrap("assign", e) =>
                  /\ parseres.st = "Ok"
                  /\ commands = <<VariableAssignmentNode(<<"x">>, ExprTree(e))>>

\* C20 witness: x *= a + b ; has been parsed to x * (a + b)
C20_Witness ==
    /\ parseres.st = "Ok"
    /\ tokens = CompoundToks("*", Chain(<<"+">>, 1))
    /\ commands[1].expression.operator = "Multiply"
    /\ commands[1].expression.left_expr = Var("x")
    /\ commands[1].expression.right_expr =
          BinaryOperationNode(Var("a"), "Plus", Var("b"))

\* C18 (exact consumption): each turn of the scan that produces a token
\* moves the cursor by exactly the chars of the token's text, a comment by
\* exactly the chars of the comment, a whitespace char by one, so the token
\* texts with the skipped whitespace and comments reproduce the source; no
\* turn aborts, whatever chars the literals and comments hold.
C18_ExactConsumption ==
    [][(stage = "lex" /\ chars # <<>>) =>
          /\ lexres'.st # "Panic"
          /\ tokens' # tokens =>
                /\ Len(tokens') = Len(tokens) + 1
                /\ SubSeq(tokens', 1, Len(tokens)) = tokens
                /\ chars = tokens'[Len(tokens')].value \o chars'
          /\ (tokens' = tokens /\ lexres' = lexres) =>
                IF StartsComment(chars)
                THEN /\ Len(chars') <= Len(chars) - 2
                     /\ chars' = SubSeq(chars, Len(chars) - Len(chars') + 1, Len(chars))
                     /\ ~HasNewline(SubSeq(chars, 3, Len(chars) - Len(chars')))
                     /\ chars' # <<>> => Head(chars') = "\n"
                ELSE /\ Head(chars) \in {" ", "\n", "\t"}
                     /\ chars' = Tail(chars)]_vars

(***************************************************************************)
(* The parser on arbitrary token sequences                                 *)
(***************************************************************************)
MaxToks == 4

TIf == Token("Keyword", <<"i", "f">>)

TPlusAssign == Token("AssignmentOperator", <<"+", "=">>)

TInt == Token("InbuiltType", <<"i", "n", "t">>)

TChar == Token("CharLiteral", <<"'", "c", "'">>)

\* the digits of i64::MAX + 1
I64Overflow ==
    <<"9", "2", "2", "3", "3", "7", "2", "0", "3", "6",
      "8", "5", "4", "7", "7", "5", "8", "0", "8">>

\* the tokens every short sequence is built from
TokenAlphabet ==
    {TLet, TIf, TName("x"), TOpen, TClose, TAssign, TPlusAssign, TOp("+"), TSemi, TNum}

\* well-formed commands, one of each shape parse_command dispatches to
BaseCommands ==
    {<<TLet, TName("x"), TAssign, TNum, TSemi>>,
     <<TLet, TInt, TName("x"), TAssign, TOpen, TName("x"), TOp("+"), TNum, TClose, TSemi>>,
     <<TName("x"), TAssign, TName("x"), TOp("+"), TNum, TOp("*"), TName("x"), TSemi>>,
     <<TName("x"), TPlusAssign, TOpen, TNum, TClose, TSemi>>,
     <<TName("x"), TAssign, TOp("-"), TOpen, TChar, TClose, TSemi>>,
     <<TName("f"), TOpen, TClose, TSemi>>,
     <<TName("f"), TOpen, TName("x"), TComma, TNum, TOp("+"), TName("x"), TClose, TSemi>>,
     <<TName("x"), TAssign, TName("f"), TOpen, TNum, TClose, TSemi, TSemi>>,
     <<TName("x"), TAssign, TNumber(I64Overflow), TSemi>>}

Prefixes(s) == {SubSeq(s, 1, n) : n \in 0..Len(s)}

\* s with one token left out
Deletions(s) == {SubSeq(s, 1, k - 1) \o SubSeq(s, k + 1, Len(s)) : k \in 1..Len(s)}

\* s with one token replaced by a keyword that starts no command
Replacements(s) == {[s EXCEPT ![k] = TIf] : k \in 1..Len(s)}

Damaged(s) == Prefixes(s) \cup Deletions(s) \cup Replacements(s)

TokenInputs ==
    SeqsUpTo(TokenAlphabet, MaxToks)
    \cup UNION {Damaged(c) : c \in BaseCommands}
    \cup {c \o d : c \in BaseCommands, d \in BaseCommands}
    \cup {c \o <<t>> : c \in BaseCommands, t \in TokenAlphabet \cup {TComma, TInt, TChar}}

\* Parser::parse on the token sequences of TokenInputs
InitTokens ==
    /\ tokens \in TokenInputs
    /\ stage = "parse"
    /\ source = <<>>
    /\ chars = <<>>
    /\ lexres = Result("Ok", "")
    /\ idx = 0
    /\ commands = <<>>
    /\ parseres = Running
    /\ scope = <<>>
    /\ cmd_i = 0
    /\ variable_table = EmptyTable
    /\ semres = Running

SpecTokens == InitTokens /\ [][NextParse]_vars

\* the token after the first token of the command that starts at idx
SecondToken == get(tokens, idx, 1)

StartsDefinition == tokens[idx + 1] = TLet

StartsFunctionCall == tokens[idx + 1].kind = "Name" /\ SecondToken.kind = "OpenParen"

StartsAssignment ==
    tokens[idx + 1].kind = "Name" /\ SecondToken.kind = "AssignmentOperator"

\* the kind of the command this step appended, "" when it appended none
Produced ==
    IF commands' = commands THEN ""
    ELSE IF Len(commands') = Len(commands) + 1
              /\ SubSeq(commands', 1, Len(commands)) = commands
    THEN commands'[Len(commands')].kind
    ELSE "?"

DispatchErrors ==
    {"Unexpected keyword, expected a command",
     "Unexpected EOF when trying to parse a command",
     "Unexpected token after custom name, expected a command",
     "Unexpected token, expected a command"}

\* C21: at a command boundary with a token left the parser dispatches on the
\* first one or two tokens: `let` gives a variable definition or one of its
\* errors, a Name before `(` a function-call statement, a Name before an
\* assignment operator an assignment; in every other case the step ends in a
\* syntax error, consumes no token and produces no command
C21_CommandDispatch ==
    [][(stage = "parse" /\ idx < Len(tokens)) =>
        CASE StartsDefinition ->
                Produced \in {"", "VariableDefinition"} /\ parseres'.msg \notin DispatchErrors
          [] StartsFunctionCall ->
                Produced \in {"", "FunctionCallCommand"} /\ parseres'.msg \notin DispatchErrors
          [] StartsAssignment ->
                Produced \in {"", "VariableAssignment"} /\ parseres'.msg \notin DispatchErrors
          [] OTHER -> /\ parseres'.st = "Err"
                      /\ parseres'.msg \in DispatchErrors
                      /\ stage' = "done"
                      /\ idx' = idx
                      /\ Produced = ""]_vars

\* a keyword other than `let` was refused at the second command boundary
C21_Witness ==
    /\ stage = "done"
    /\ parseres.msg = "Unexpected keyword, expected a command"
    /\ idx > 0
    /\ Len(commands) = 1
    /\ tokens[idx + 1] = TIf

IsCharLiteral(t) == t.kind = "CharLiteral"

\* the char literal tokens among those the step from idx to idx' consumed
ConsumedCharLiterals == SelectSeq(SubSeq(tokens, idx + 1, idx'), IsCharLiteral)

\* the command this step appended stores a char literal as its expression
ProducedCharLiteral ==
    /\ Produced \in {"VariableDefinition", "VariableAssignment"}
    /\ commands'[Len(commands')].expression.kind = "CharLiteral"
    /\ Len(ConsumedCharLiterals) = 1

\* C22 (char literal value): for every char literal token the lexer produces
\* the CharLiteral node the parser builds holds a character that stands
\* strictly between the two quotes of the token, never a quote delimiter,
\* the token with nothing between the quotes included.
C22_CharLiteralValue ==
    [][(stage = "parse" /\ ProducedCharLiteral) =>
        LET text == ConsumedCharLiterals[1].value
        IN  \E k \in 2..(Len(text) - 1) :
                commands'[Len(commands')].expression.value = text[k]]_vars

\* C23 (parser progress and termination): on every token sequence parse ends
\* with a result, Ok or an error; at a command boundary the cursor is never
\* past the end of the tokens; every command that parses advances the cursor
\* by at least one token; when parse returns Ok the cursor is the number of
\* tokens and the scope holds the commands in source order.
C23_ParserProgress ==
    [][stage = "parse" =>
        /\ parseres'.st \in {"Run", "Ok", "Err"}
        /\ stage' # "parse" => parseres'.st # "Run"
        /\ stage' = "parse" => idx < idx' /\ idx' <= Len(tokens)
        /\ Produced # "?"
        /\ Produced # "" => idx' >= idx + 1
        /\ parseres'.st = "Ok" =>
              /\ idx' = Len(tokens)
              /\ commands' = parse(tokens).commands]_vars

\* C24 (unchecked token fetches): on every token sequence each place of the
\* parser that takes or skips a token without a test finds the token it
\* assumes: an Operator at the start of parse_binary_expression, a token
\* after a parenthesized sub-expression, a Name and an opening parenthesis at
\* the start of parse_function_call, `let` at the start of
\* parse_variable_definition.
C24_UncheckedFetchesSafe == parseres.st # "Unchecked"

\* parse went through each of these places:  let int x = ( x + 1 ) ;  f ( ) ;
C24_Witness ==
    /\ stage = "parsed"
    /\ Len(commands) = 2
    /\ tokens[1] = TLet
    /\ tokens[5] = TOpen
    /\ commands[1].kind = "VariableDefinition"
    /\ commands[1].expression.kind = "BinaryOperation"
    /\ commands[2].kind = "FunctionCallCommand"

\* C25 (symbol table frame): during a traverse call the symbol table changes
\* only when a variable definition has been checked successfully, and then
\* only in the entry of the defined name; assignments, function-call
\* statements, the typing of expressions and every command that ends in an
\* error leave it as it was; no name is ever removed.
C25_TableFrame ==
    [][stage = "sem" =>
        /\ DOMAIN variable_table \subseteq DOMAIN variable_table'
        /\ variable_table' # variable_table =>
              /\ cmd_i < Len(scope)
              /\ scope[cmd_i + 1].kind = "VariableDefinition"
              /\ Accepted
              /\ DOMAIN variable_table' = DOMAIN variable_table \cup {scope[cmd_i + 1].name}
              /\ \A n \in DOMAIN variable_table \ {scope[cmd_i + 1].name} :
                    variable_table'[n] = variable_table[n]]_vars

\* a definition was accepted and entered, the definition after it was refused
C25_Witness ==
    /\ stage = "done"
    /\ semres.st = "Err"
    /\ cmd_i >= 1
    /\ scope[cmd_i + 1].kind = "VariableDefinition"
    /\ variable_table # EmptyTable

(***************************************************************************)
(* traverse called again on the scope it has just accepted                 *)
(***************************************************************************)
\* scopes in which x is used between its two definitions
UseBeforeRedefinitionScopes ==
    {<<first, use, second>> :
        first \in SimpleDefs, use \in AfterRedefinition, second \in Redefinitions}

\* a second call of traverse on the same VariableTraverser and the same
\* scope, after the call before it returned Ok: the scope keeps the types it
\* was given and nothing resets variable_table
TraverseSame ==
    /\ stage = "done"
    /\ semres.st = "Ok"
    /\ cmd_i' = 0
    /\ semres' = Running
    /\ stage' = "sem"
    /\ UNCHANGED <<source, chars, tokens, lexres, idx, commands, parseres, scope,
                   variable_table>>

\* a new VariableTraverser and a scope as the parser leaves it
InitRerun ==
    /\ \/ scope \in SemScopes
       \/ scope \in RedefinitionScopes
       \/ scope \in UseBeforeRedefinitionScopes
    /\ stage = "sem"
    /\ source = <<>>
    /\ chars = <<>>
    /\ tokens = <<>>
    /\ lexres = Result("Ok", "")
    /\ idx = 0
    /\ commands = scope
    /\ parseres = Result("Ok", "")
    /\ cmd_i = 0
    /\ variable_table = EmptyTable
    /\ semres = Running

NextRerun == TraverseCommand \/ TraverseFinish \/ TraverseSame

SpecRerun == InitRerun /\ [][NextRerun]_vars

\* the first call: traverse on the scope as parsed, from the empty table
FirstCall == traverse(commands, EmptyTable)

\* C26 (re-analysis is stable): when traverse returns Ok for a scope from an
\* empty table, every later call of traverse on the same scope with the same
\* VariableTraverser returns Ok too, gives every expression node the type it
\* had, and leaves the symbol table equal to the table after the first call.
C26_ReanalysisStable ==
    FirstCall.st = "Ok" =>
        /\ semres.st \in {"Run", "Ok"}
        /\ stage = "done" =>
              /\ scope = FirstCall.commands
              /\ variable_table = FirstCall.table

\* inside a second call: the third command carries the type of the first
\* call while the table holds the type of the first definition again
C26_Witness ==
    /\ stage = "sem"
    /\ cmd_i = 2
    /\ Len(scope) = 3
    /\ scope[2].kind = "VariableAssignment"
    /\ scope[3].kind = "VariableDefinition"
    /\ scope[3].expression.kind = "FloatLiteral"
    /\ scope[3].expression.t = "Float"
    /\ variable_table[NameX] = "Int"

====
